---- MODULE Spec2Model ----
(***************************************************************************)
(* EtherealEngine: the view-slot allocator of gfx::render_pass             *)
(* (engine/core/graphics/render_pass.cpp) and the GPU picking pipeline of  *)
(* editor::picking_system (editor/editor_runtime/editing/                  *)
(* picking_system.cpp).                                                    *)
(***************************************************************************)
EXTENDS Integers, Sequences, FiniteSets, TLC

(***************************************************************************)
(* Bounds of the model.                                                    *)
(***************************************************************************)
\* generate_id() calls followed between two render_pass::reset() calls
MaxCalls == 257
\* last frame number the renderer's completed-frame counter reaches
MaxFrame == 4
\* frames between gfx::read_texture() and the data being in _blit_data
ReadLatency == 2

(***************************************************************************)
(* Program constants.                                                      *)
(***************************************************************************)
\* render_pass.cpp:11  if(s_index == 255)
ViewLimit == 255
\* picking_system.cpp:22  picking_system::tex_id_dim (the header's value is
\* not part of the sources; 2 gives a buffer in which counts can differ)
tex_id_dim == 2

\* entity indices the ecs has handed out, and "no entity"
Indices == {1, 5, 65536}
NoEntity == -1
\* passes the other subsystems construct in a frame before the picking tick
PassesBefore == {0, 254}

VARIABLES
    \* ---- gfx (render_pass.cpp) ----
    s_index,        \* static gfx::view_id s_index
    s_last_index,   \* static gfx::view_id s_last_index
    pass_id,        \* render_pass::id of the pass constructed last (-1: none yet)
    views,          \* view slots holding configured state (set_view_name ... reset_view)
    calls,          \* generate_id() calls since the last render_pass::reset()
    frame_calls,    \* gfx::frame() calls since the last reset()
    frame_slots,    \* slots returned since the last gfx::frame()
    run_slots,      \* slots returned since the last gfx::frame() or reset()
    \* ---- editor::picking_system (picking_system.cpp) ----
    _reading,       \* std::uint32_t _reading: frame the read completes at, 0: none
    _start_readback,\* bool _start_readback
    _surface,       \* the identity buffer (render target), one RGB triple per texel
    _blit_data,     \* std::uint8_t _blit_data[]: one 4-byte tuple per texel
    \* ---- collaborators ----
    render_frame,   \* renderer.get_render_frame()
    blit_support,   \* caps->supported & BGFX_CAPS_TEXTURE_BLIT
    d3d9,           \* gfx::get_renderer_type() == Direct3D9
    reads,          \* gfx::read_texture() requests in flight: <<[due, data]>>
    scene,          \* entity seen through each texel of the pick frustum
    live,           \* entity indices alive in the ecs
    capacity,       \* entity slots the ecs has handed out (indices below it)
    selection,      \* es.selection_data.object (NoEntity: none)
    warnings,       \* APPLOG_WARNING lines of line 123 in the application log
    \* ---- the tick in progress ----
    pc,             \* "tick": frame_render is due; "frame": the frame ends
    click,          \* input sampled by the latest frame_render
    decoded,        \* the latest frame_render ran the decode of lines 137-195
    outcome,        \* what the latest frame_render told the editing_system
    ids,            \* std::map ids of the latest decode
    fill_pass_id,   \* pass.id of its "picking_buffer_fill" pass (-1: none)
    blit_pass_id    \* pass.id of its "picking_buffer_blit" pass (-1: none)

gfx_vars == <<s_index, s_last_index, pass_id, views, calls, frame_calls,
              frame_slots, run_slots>>

pick_vars == <<_reading, _start_readback, _surface, _blit_data>>

env_vars == <<render_frame, blit_support, d3d9, reads, scene, live, capacity,
              selection, warnings>>

tick_vars == <<pc, click, decoded, outcome, ids, fill_pass_id, blit_pass_id>>

vars == <<gfx_vars, pick_vars, env_vars, tick_vars>>

(***************************************************************************)
(* gfx::generate_id, render_pass::render_pass, render_pass::reset,         *)
(* render_pass::get_pass.  The allocator state is handled as a record so   *)
(* that a handler constructing several passes can thread it through.       *)
(***************************************************************************)
GfxState ==
    [s_index |-> s_index, s_last_index |-> s_last_index, pass_id |-> pass_id,
     views |-> views, calls |-> calls, frame_calls |-> frame_calls,
     frame_slots |-> frame_slots, run_slots |-> run_slots]

SetGfx(g) ==
    /\ s_index' = g.s_index
    /\ s_last_index' = g.s_last_index
    /\ pass_id' = g.pass_id
    /\ views' = g.views
    /\ calls' = g.calls
    /\ frame_calls' = g.frame_calls
    /\ frame_slots' = g.frame_slots
    /\ run_slots' = g.run_slots

\* gfx::frame(): everything submitted so far is flushed, a new frame begins
frame(g) ==
    [g EXCEPT !.frame_calls = @ + 1, !.frame_slots = {}, !.run_slots = {}]

\* generate_id() wrapping s_index to 0 without the gfx::frame() of line 13
generate_id_noflush(g) ==
    LET f == IF g.s_index = ViewLimit THEN [g EXCEPT !.s_index = 0] ELSE g
        idx == f.s_index
    IN  [f EXCEPT !.s_index = idx + 1,
                  !.s_last_index = idx,
                  !.pass_id = idx,
                  !.calls = @ + 1,
                  !.frame_slots = @ \cup {idx},
                  !.run_slots = @ \cup {idx}]

\* generate_id() recording s_last_index after the increment of line 17
generate_id_lastnext(g) ==
    LET f == IF g.s_index = ViewLimit
             THEN [frame(g) EXCEPT !.s_index = 0]
             ELSE g
        idx == f.s_index
    IN  [f EXCEPT !.s_index = idx + 1,
                  !.s_last_index = idx + 1,
                  !.pass_id = idx,
                  !.calls = @ + 1,
                  !.frame_slots = @ \cup {idx},
                  !.run_slots = @ \cup {idx}]

\* generate_id(): returns the record after the call; the returned view id
\* is its pass_id field.
generate_id(g) ==
    LET f == IF g.s_index = ViewLimit
             THEN [frame(g) EXCEPT !.s_index = 0]
             ELSE g
        idx == f.s_index
    IN  [f EXCEPT !.s_index = idx + 1,
                  !.s_last_index = idx,
                  !.pass_id = idx,
                  !.calls = @ + 1,
                  !.frame_slots = @ \cup {idx},
                  !.run_slots = @ \cup {idx}]

\* render_pass::render_pass(n): id = generate_id(); set_view_name(id, n)
render_pass(g) ==
    LET a == generate_id(g)
    IN  [a EXCEPT !.views = @ \cup {a.pass_id}]

\* render_pass::reset(): reset_view(i) for every i < s_index, then both
\* counters back to 0.
reset(g) ==
    [g EXCEPT !.views = {v \in @ : ~(v < g.s_index)},
              !.s_index = 0,
              !.s_last_index = 0,
              !.calls = 0,
              !.frame_calls = 0,
              !.run_slots = {}]

\* render_pass::get_pass()
get_pass == s_last_index

\* static initialisation of render_pass.cpp, lines 6-7
GfxZero ==
    [s_index |-> 0, s_last_index |-> 0, pass_id |-> -1, views |-> {},
     calls |-> 0, frame_calls |-> 0, frame_slots |-> {}, run_slots |-> {}]

\* the allocator variables hold the record g
GfxIs(g) ==
    /\ s_index = g.s_index
    /\ s_last_index = g.s_last_index
    /\ pass_id = g.pass_id
    /\ views = g.views
    /\ calls = g.calls
    /\ frame_calls = g.frame_calls
    /\ frame_slots = g.frame_slots
    /\ run_slots = g.run_slots

GfxInit == GfxIs(GfxZero)

(***************************************************************************)
(* ColorID: the encoding of picking_system.cpp:102-106, the RGBA8 render   *)
(* target, the read back bytes and the key of line 159.                    *)
(***************************************************************************)
Texels == 1..(tex_id_dim * tex_id_dim)

\* the packing with gg taken from bits 16-23 as well
color_bytes_badshift(entity_index) ==
    <<entity_index % 256,
      (entity_index \div 65536) % 256,
      (entity_index \div 65536) % 256>>

\* lines 103-105: rr = index & 0xff, gg = (index >> 8) & 0xff,
\* bb = (index >> 16) & 0xff
color_bytes(entity_index) ==
    <<entity_index % 256,
      (entity_index \div 256) % 256,
      (entity_index \div 65536) % 256>>

\* line 106: color_id = {rr / 255.0f, gg / 255.0f, bb / 255.0f, 1.0f}; a
\* channel is kept as the fraction <<numerator, denominator>>
color_id(entity_index) ==
    LET c == color_bytes(entity_index)
    IN  <<<<c[1], 255>>, <<c[2], 255>>, <<c[3], 255>>>>

\* an RGBA8 target stores a channel value v in [0,1] as round(v * 255)
unorm8(ch) == (2 * 255 * ch[1] + ch[2]) \div (2 * ch[2])

\* the texel the fragment stage writes for uniform u_id
shade(u_id) == <<unorm8(u_id[1]), unorm8(u_id[2]), unorm8(u_id[3])>>

\* the clear colour 0x000000ff of line 79, as a texel
Background == <<0, 0, 0>>

\* the bytes of one texel as the backend hands them back: RGBA, and BGRA on
\* Direct3D9 (lines 147-151)
readback_texel(t, is_d3d9) ==
    IF is_d3d9 THEN <<t[3], t[2], t[1], 255>> ELSE <<t[1], t[2], t[3], 255>>

\* lines 142-151: rr, gg, bb of four bytes, swapped back on Direct3D9
texel_rgb(x, is_d3d9) ==
    IF is_d3d9 THEN <<x[3], x[2], x[1]>> ELSE <<x[1], x[2], x[3]>>

\* the background test against white instead of the clear colour
is_background_white(c) == c[1] = 255 /\ c[2] = 255 /\ c[3] = 255

\* line 154: 0 == (rr | gg | bb)
is_background(c) == c[1] = 0 /\ c[2] = 0 /\ c[3] = 0

\* line 159: rr + (gg << 8) + (bb << 16)
hash_key(c) == c[1] + c[2] * 256 + c[3] * 65536

(***************************************************************************)
(* The decode of lines 138-194.                                            *)
(***************************************************************************)
NoIds == [k \in {} |-> 0]

\* the count of a key that is already in the map left at 1
count_texel_once(m, key) ==
    [k \in DOMAIN m \cup {key} |-> IF k = key THEN 1 ELSE m[k]]

\* lines 160-168: one texel counted into the map
count_texel(m, key) ==
    IF key \in DOMAIN m
    THEN [m EXCEPT ![key] = @ + 1]
    ELSE [k \in DOMAIN m \cup {key} |-> IF k = key THEN 1 ELSE m[k]]

\* lines 140-170: the scan of the first n texels of data
RECURSIVE scan(_, _, _)
scan(data, is_d3d9, n) ==
    IF n = 0 THEN NoIds
    ELSE LET m == scan(data, is_d3d9, n - 1)
             c == texel_rgb(data[n], is_d3d9)
         IN  IF is_background(c) THEN m ELSE count_texel(m, hash_key(c))

\* line 169: the largest count of the map, 0 for an empty map
max_amount(m) ==
    IF DOMAIN m = {} THEN 0
    ELSE CHOOSE a \in {m[k] : k \in DOMAIN m} : \A k \in DOMAIN m : m[k] <= a

\* the winner scan taking the last pair whose count is max_amount
first_max_last(m) ==
    LET top == {k \in DOMAIN m : m[k] = max_amount(m)}
    IN  CHOOSE k \in top : \A j \in top : j <= k

\* lines 175-189: std::map iterates in ascending key order; the first pair
\* whose count is max_amount
first_max(m) ==
    LET top == {k \in DOMAIN m : m[k] = max_amount(m)}
    IN  CHOOSE k \in top : \A j \in top : k <= j

\* line 180: ecs.valid_index(id_key): the index has been handed out
valid_index(id_key, cap) == id_key < cap

\* lines 182-184: ecs.get(ecs.create_id(id_key)) is a valid entity
picked_entity(id_key, alive) == id_key \in alive

NoOutcome == [kind |-> "none", index |-> NoEntity]
Deselect == [kind |-> "deselect", index |-> NoEntity]
Select(i) == [kind |-> "select", index |-> i]

\* lines 172-194: what the decode tells the editing_system
decide(m, alive, cap) ==
    IF max_amount(m) # 0
    THEN LET id_key == first_max(m)
         IN  IF valid_index(id_key, cap) /\ picked_entity(id_key, alive)
             THEN Select(id_key)
             ELSE NoOutcome
    ELSE Deselect

\* es.select / es.unselect on the selection
apply_outcome(sel, o) ==
    CASE o.kind = "select" -> o.index
      [] o.kind = "deselect" -> NoEntity
      [] OTHER -> sel

(***************************************************************************)
(* The pick render of lines 76-111.                                        *)
(***************************************************************************)
\* the surface after the pass: cleared to black, every live entity in the
\* pick frustum drawn with its colour
render(sc, alive) ==
    [t \in Texels |->
        IF sc[t] \in alive THEN shade(color_id(sc[t])) ELSE Background]

\* the bytes gfx::read_texture() delivers for a blit of surface
readback(surface, is_d3d9) ==
    [t \in Texels |-> readback_texel(surface[t], is_d3d9)]

(***************************************************************************)
(* picking_system::frame_render, lines 24-196, connected to                *)
(* runtime::on_frame_render (line 200): it runs once in every frame.       *)
(***************************************************************************)
\* what frame_render reads from the input, the gizmo and the editor camera:
\* is_mouse_button_pressed(left), imguizmo::is_over(), the camera and its
\* component exist, viewport_to_world succeeds at the near / far plane
Input(p, o, c, n, f) ==
    [pressed |-> p, over |-> o, camera |-> c, near |-> n, far |-> f]

NoInput == Input(FALSE, FALSE, TRUE, TRUE, TRUE)

Inputs ==
    {NoInput,
     Input(TRUE, FALSE, TRUE, TRUE, TRUE),
     Input(TRUE, TRUE, TRUE, TRUE, TRUE),
     Input(TRUE, FALSE, FALSE, TRUE, TRUE),
     Input(TRUE, FALSE, TRUE, FALSE, TRUE),
     Input(TRUE, FALSE, TRUE, TRUE, FALSE)}

\* the early returns without those of the two viewport_to_world calls
rejected_nounproject(in, sel) ==
    /\ in.pressed
    /\ \/ in.over /\ sel # NoEntity
       \/ ~in.camera

\* lines 36-60: the early returns of a pressed button
rejected(in, sel) ==
    /\ in.pressed
    /\ \/ in.over /\ sel # NoEntity
       \/ ~in.camera
       \/ ~in.near
       \/ ~in.far

\* lines 33-62: the click reaches line 62
accepted(in, sel) == in.pressed /\ ~rejected(in, sel)

\* gfx::read_texture() returning a frame number also for a read that could
\* not be scheduled
read_texture_nonzero(now, scheduled) == now + ReadLatency

\* gfx::read_texture(): the frame the data is available at, 0 when the read
\* could not be scheduled
read_texture(now, scheduled) == IF scheduled THEN now + ReadLatency ELSE 0

\* line 116: if(!_reading && _start_readback)
blit_due(reading, start) == reading = 0 /\ start

\* _start_readback cleared only after a blit that was issued
start_after_blit_issued(blit, start) ==
    IF blit /\ blit_support THEN FALSE ELSE start

\* lines 124 and 132: _start_readback = false in both branches of the block
start_after_blit(blit, start) == IF blit THEN FALSE ELSE start

\* the fence test without the comparison against render_frame
decode_due_nofence(reading, now) == reading # 0

\* line 135: if(_reading && _reading <= render_frame)
decode_due(reading, now) == reading # 0 /\ reading <= now

Tick(in, scheduled) ==
    /\ pc = "tick"
    /\ pc' = "frame"
    /\ click' = in
    /\ UNCHANGED <<render_frame, blit_support, d3d9, scene, live, capacity>>
    /\ IF rejected(in, selection)
       THEN \* lines 37, 40, 56, 60: return
            /\ decoded' = FALSE
            /\ outcome' = NoOutcome
            /\ ids' = NoIds
            /\ fill_pass_id' = -1
            /\ blit_pass_id' = -1
            /\ UNCHANGED <<gfx_vars, pick_vars, reads, selection, warnings>>
       ELSE LET acc == accepted(in, selection)
                \* lines 62-111
                reading1 == IF acc THEN 0 ELSE _reading
                start1 == IF acc THEN TRUE ELSE _start_readback
                g1 == IF acc THEN render_pass(GfxState) ELSE GfxState
                surface1 == IF acc THEN render(scene, live) ELSE _surface
                \* lines 116-133
                blit == blit_due(reading1, start1)
                doblit == blit /\ blit_support
                g2 == IF doblit THEN render_pass(g1) ELSE g1
                reading2 == IF doblit
                            THEN read_texture(render_frame, scheduled)
                            ELSE reading1
                start2 == start_after_blit(blit, start1)
                \* lines 135-195; line 125 returns before them
                decode == ~(blit /\ ~blit_support)
                          /\ decode_due(reading2, render_frame)
                m == scan(_blit_data, d3d9, tex_id_dim * tex_id_dim)
                o == IF decode THEN decide(m, live, capacity) ELSE NoOutcome
            IN  /\ SetGfx(g2)
                /\ _reading' = IF decode THEN 0 ELSE reading2
                /\ _start_readback' = start2
                /\ warnings' = IF blit /\ ~blit_support
                               THEN warnings + 1
                               ELSE warnings
                /\ _surface' = surface1
                /\ UNCHANGED _blit_data
                /\ reads' = IF doblit /\ scheduled
                            THEN Append(reads, [due |-> reading2,
                                                data |-> readback(surface1, d3d9)])
                            ELSE reads
                /\ decoded' = decode
                /\ ids' = IF decode THEN m ELSE NoIds
                /\ outcome' = o
                /\ selection' = apply_outcome(selection, o)
                /\ fill_pass_id' = IF acc THEN g1.pass_id ELSE -1
                /\ blit_pass_id' = IF doblit THEN g2.pass_id ELSE -1

(***************************************************************************)
(* The rest of the frame: the renderer submits it, the completed-frame     *)
(* counter advances, the reads that are due land in _blit_data, the passes *)
(* are reset and the subsystems that run before the picking system         *)
(* construct theirs.                                                       *)
(***************************************************************************)
\* k render_pass constructions in a row, none of which reaches ViewLimit:
\* the slots s_index .. s_index + k - 1 are handed out in order
engine_passes(k, g) ==
    IF k = 0 \/ g.s_index + k > ViewLimit THEN g
    ELSE LET got == g.s_index .. (g.s_index + k - 1)
         IN  [g EXCEPT !.s_index = @ + k,
                       !.s_last_index = g.s_index + k - 1,
                       !.pass_id = g.s_index + k - 1,
                       !.calls = @ + k,
                       !.views = @ \cup got,
                       !.frame_slots = @ \cup got,
                       !.run_slots = @ \cup got]

\* the reads of rs that are complete at frame now, applied in order to data
RECURSIVE deliver(_, _, _)
deliver(rs, now, data) ==
    IF rs = <<>> THEN data
    ELSE deliver(Tail(rs), now, IF Head(rs).due <= now THEN Head(rs).data ELSE data)

FrameEnd(k) ==
    /\ pc = "frame"
    /\ render_frame < MaxFrame
    /\ pc' = "tick"
    /\ render_frame' = render_frame + 1
    /\ _blit_data' = deliver(reads, render_frame + 1, _blit_data)
    /\ reads' = SelectSeq(reads, LAMBDA r : r.due > render_frame + 1)
    /\ SetGfx(engine_passes(k, reset(frame(GfxState))))
    /\ click' = NoInput
    /\ decoded' = FALSE
    /\ outcome' = NoOutcome
    /\ ids' = NoIds
    /\ fill_pass_id' = -1
    /\ blit_pass_id' = -1
    /\ UNCHANGED <<_reading, _start_readback, _surface, blit_support, d3d9,
                   scene, live, capacity, selection, warnings>>

\* an entity is destroyed between two ticks
DestroyEntity(e) ==
    /\ pc = "frame"
    /\ e \in live
    /\ live' = live \ {e}
    /\ UNCHANGED <<gfx_vars, pick_vars, render_frame, blit_support, d3d9, reads,
                   scene, capacity, selection, warnings, tick_vars>>

PickInit ==
    /\ _reading = 0
    /\ _start_readback = FALSE
    /\ _surface = [t \in Texels |-> Background]
    /\ _blit_data = [t \in Texels |-> <<0, 0, 0, 0>>]
    /\ render_frame = 0
    /\ reads = <<>>
    /\ selection = NoEntity
    /\ warnings = 0
    /\ pc = "tick"
    /\ click = NoInput
    /\ decoded = FALSE
    /\ outcome = NoOutcome
    /\ ids = NoIds
    /\ fill_pass_id = -1
    /\ blit_pass_id = -1

\* what the pick frustum can show: every layout of the entities and of
\* empty texels
AllScenes == [Texels -> Indices \cup {NoEntity}]

\* the layouts the tick machine is run on: entity 5 alone covering the
\* buffer, nothing in the frustum, a majority, a tie
Scenes ==
    {sc \in AllScenes :
        sc \in {<<5, 5, 5, 5>>,
                <<NoEntity, NoEntity, NoEntity, NoEntity>>,
                <<65536, 5, NoEntity, 5>>,
                <<65536, 5, NoEntity, NoEntity>>}}

SceneEntities == {scene[t] : t \in Texels} \ {NoEntity}

Init ==
    /\ GfxInit
    /\ PickInit
    /\ blit_support \in BOOLEAN
    /\ d3d9 \in BOOLEAN
    /\ scene \in Scenes
    /\ live = Indices
    /\ capacity = 65537

Next ==
    \/ \E in \in Inputs, scheduled \in BOOLEAN : Tick(in, scheduled)
    \/ \E k \in PassesBefore : FrameEnd(k)
    \/ \E e \in SceneEntities : DestroyEntity(e)

Spec == Init /\ [][Next]_vars

(***************************************************************************)
(* The decode on every buffer a pick can leave in _blit_data: the state of *)
(* a session in which a click was rendered with every entity alive, its    *)
(* read has completed, entities have been destroyed since and something    *)
(* may be selected.                                                        *)
(***************************************************************************)
ClickOk == Input(TRUE, FALSE, TRUE, TRUE, TRUE)

InitDecode ==
    /\ GfxIs(reset(frame(render_pass(render_pass(GfxZero)))))
    /\ blit_support = TRUE
    /\ d3d9 \in BOOLEAN
    /\ scene \in AllScenes
    /\ live \in SUBSET Indices
    /\ capacity = 65537
    /\ selection \in Indices \cup {NoEntity}
    /\ _reading = ReadLatency
    /\ _start_readback = FALSE
    /\ _surface = render(scene, Indices)
    /\ _blit_data = readback(render(scene, Indices), d3d9)
    /\ render_frame = ReadLatency
    /\ reads = <<>>
    /\ warnings = 0
    /\ pc = "tick"
    /\ click = NoInput
    /\ decoded = FALSE
    /\ outcome = NoOutcome
    /\ ids = NoIds
    /\ fill_pass_id = -1
    /\ blit_pass_id = -1

NextDecode == \E in \in Inputs, scheduled \in BOOLEAN : Tick(in, scheduled)

SpecDecode == InitDecode /\ [][NextDecode]_vars

(***************************************************************************)
(* The ColorID of one entity through the whole pipeline: the entity covers *)
(* the buffer, is clicked, rendered, blitted, read back and decoded.       *)
(***************************************************************************)
ByteSamples == {0, 1, 128, 255}

CodecIndices ==
    {r + 256 * g + 65536 * b : r \in ByteSamples, g \in ByteSamples,
                                b \in ByteSamples}

InitCodec ==
    /\ GfxInit
    /\ PickInit
    /\ blit_support = TRUE
    /\ d3d9 \in BOOLEAN
    /\ \E i \in CodecIndices :
          /\ scene = [t \in Texels |-> i]
          /\ live = {i}
          /\ capacity = i + 1

NextCodec ==
    \/ \E in \in {NoInput, ClickOk} : Tick(in, TRUE)
    \/ FrameEnd(0)

SpecCodec == InitCodec /\ [][NextCodec]_vars

(***************************************************************************)
(* The allocator on its own: passes are constructed and reset in any       *)
(* order.                                                                  *)
(***************************************************************************)
Allocate ==
    /\ calls < MaxCalls
    /\ SetGfx(render_pass(GfxState))
    /\ UNCHANGED <<pick_vars, env_vars, tick_vars>>

ResetAll ==
    /\ SetGfx(reset(GfxState))
    /\ UNCHANGED <<pick_vars, env_vars, tick_vars>>

InitAlloc ==
    /\ GfxInit
    /\ PickInit
    /\ blit_support = TRUE
    /\ d3d9 = FALSE
    /\ scene = [t \in Texels |-> NoEntity]
    /\ live = Indices
    /\ capacity = 65537

NextAlloc == Allocate \/ ResetAll

SpecAlloc == InitAlloc /\ [][NextAlloc]_vars

(***************************************************************************)
(* The two passes of a click at every value of s_index: entity 5 covers    *)
(* the buffer, and the other subsystems have constructed any number of     *)
(* passes before the first picking tick.                                   *)
(***************************************************************************)
InitOrder ==
    /\ \E k \in 0..ViewLimit : GfxIs(engine_passes(k, GfxZero))
    /\ PickInit
    /\ blit_support = TRUE
    /\ d3d9 = FALSE
    /\ scene = [t \in Texels |-> 5]
    /\ live = Indices
    /\ capacity = 65537

NextOrder ==
    \/ \E in \in {NoInput, ClickOk}, scheduled \in BOOLEAN : Tick(in, scheduled)
    \/ FrameEnd(0)

SpecOrder == InitOrder /\ [][NextOrder]_vars

(***************************************************************************)
(* Properties.                                                             *)
(***************************************************************************)
\* the colour frame_render reads from texel t of _blit_data
TexelColor(t) == texel_rgb(_blit_data[t], d3d9)

\* texels of _blit_data that hold colour c
Count(c) == Cardinality({t \in Texels : TexelColor(t) = c})

\* the colour of entity a is not the background and occupies strictly more
\* texels of _blit_data than every other colour that is not the background
Dominates(a) ==
    LET ca == color_bytes(a)
    IN  /\ ca # Background
        /\ Count(ca) > 0
        /\ \A t \in Texels :
              TexelColor(t) \notin {ca, Background}
                  => Count(TexelColor(t)) < Count(ca)

\* every texel of _blit_data has R = G = B = 0
AllBackground ==
    \A t \in Texels :
        _blit_data[t][1] = 0 /\ _blit_data[t][2] = 0 /\ _blit_data[t][3] = 0

\* C1: on a tick where the fence of an earlier click is recorded and not
\* yet reached, a click that passes every gate is dropped: no view slot is
\* allocated, the identity buffer is not rendered again and the recorded
\* fence stays what it was.
C1_SecondClickDropped ==
    [][(/\ pc = "tick"
        /\ pc' = "frame"
        /\ _reading # 0
        /\ ~decode_due(_reading, render_frame)
        /\ accepted(click', selection))
           => (/\ calls' = calls
               /\ s_index' = s_index
               /\ _surface' = _surface
               /\ _reading' = _reading)]_vars

\* C2: counted from a reset allocator, the n-th generate_id() call returns
\* slot n - 1 for n = 1 .. 256 without any frame flush, and the 257th call
\* flushes exactly once and returns slot 0.
C2_SlotWraparound ==
    /\ calls \in 1..256 => pass_id = calls - 1 /\ frame_calls = 0
    /\ calls = 257 => pass_id = 0 /\ frame_calls = 1

\* C3 (as stated): a generate_id() call that does not flush returns a slot
\* that has not been returned since the last frame flush, whatever resets
\* came in between.
C3_NoReuseInFrame ==
    [][(calls' = calls + 1 /\ frame_calls' = frame_calls)
           => pass_id' \notin frame_slots]_vars

\* C3 (amended): a generate_id() call that does not flush returns a slot
\* that has not been returned since the last frame flush or reset().
C3_NoReuseSinceReset ==
    [][(calls' = calls + 1 /\ frame_calls' = frame_calls)
           => pass_id' \notin run_slots]_vars

\* a pass was constructed after a reset() in a frame that had already
\* handed out more slots
C3_Witness ==
    /\ calls > 0
    /\ Cardinality(frame_slots) > Cardinality(run_slots)

\* C4: once generate_id() has been called, get_pass() is the slot the
\* latest call returned, also when that call wrapped around.
C4_LastIssued == calls > 0 => get_pass = pass_id

\* the 256th call in a row has wrapped around and returned slot 0
C4_Witness ==
    /\ calls = 256
    /\ frame_calls = 1
    /\ pass_id = 0
    /\ get_pass = 0

\* C5: when the read of a click is complete, the key of line 159 computed
\* from each texel is the index of the entity drawn there, and a decode
\* of a buffer covered by a live entity of index i > 0 counts key i alone
\* and selects i.
C5_RoundTrip ==
    /\ (pc = "tick" /\ decode_due(_reading, render_frame))
           => \A t \in Texels : hash_key(TexelColor(t)) = scene[t]
    /\ (decoded /\ scene[1] # 0)
           => DOMAIN ids = {scene[1]} /\ outcome = Select(scene[1])

\* the entity of index 2^24 - 1 went through the pipeline and was selected
C5_Witness ==
    /\ decoded
    /\ scene[1] = 16777215
    /\ outcome = Select(16777215)

\* C6: after the pick render of an accepted click, a texel showing a live
\* entity does not hold the background colour.
C6_NotBackground ==
    (pc = "frame" /\ click = ClickOk)
        => \A t \in Texels : scene[t] \in live => _surface[t] # Background

\* C7: a decode of a buffer in which the colour of a live entity a
\* occupies strictly more texels than every other non-background colour
\* selects a.
C7_MajoritySelected ==
    \A a \in live : (decoded /\ Dominates(a)) => outcome = Select(a)

\* entity 65536 was selected from one texel among three background texels
C7_Witness ==
    /\ decoded
    /\ outcome = Select(65536)
    /\ Count(color_bytes(65536)) = 1
    /\ Count(Background) = 3

\* C8: key 0 is never in the map, and a decode of a buffer whose texels
\* are all background clears the selection and selects nothing.
C8_BackgroundSentinel ==
    /\ 0 \notin DOMAIN ids
    /\ (decoded /\ AllBackground)
           => outcome = Deselect /\ selection = NoEntity

\* an all-background buffer was decoded with entity 5 alive
C8_Witness ==
    /\ decoded
    /\ AllBackground
    /\ outcome = Deselect
    /\ 5 \in live

\* C9: a decode whose winning key is not the index of a live entity
\* clears the selection.
C9_StaleDeselect ==
    (decoded /\ ids # NoIds /\ first_max(ids) \notin live)
        => outcome = Deselect /\ selection = NoEntity

\* without blit support: Idle, nothing read back or decoded, no outcome
C10_Idle ==
    ~blit_support
        => /\ ~_start_readback
           /\ _reading = 0
           /\ reads = <<>>
           /\ ~decoded
           /\ outcome = NoOutcome
           /\ selection = NoEntity

\* without blit support an accepted click renders into a new pass
C10_ClickAccepted ==
    (~blit_support /\ pc = "tick" /\ pc' = "frame"
        /\ accepted(click', selection))
        => /\ calls' = calls + 1
           /\ pass_id' \in views'
           /\ _surface' = render(scene, live)

\* C10: without blit support the machine is Idle after every tick and
\* every frame, nothing is read back or decoded, no outcome is emitted,
\* and every accepted click still renders the identity buffer in a new
\* pass.
C10_CapabilityFailure == [](C10_Idle) /\ [][C10_ClickAccepted]_vars

\* without blit support a second click has been accepted and rendered
C10_Witness ==
    /\ ~blit_support
    /\ pc = "frame"
    /\ click = ClickOk
    /\ render_frame >= 1
    /\ _surface # [t \in Texels |-> Background]
    /\ ~_start_readback

\* C11: on the first tick without a click at which the fence of an
\* accepted click is reached, exactly one outcome is emitted and the machine
\* is Idle afterwards; the outcome is Select(5) when the live entity 5
\* covers the identity buffer and Deselect when nothing is in the pick
\* frustum.
C11_EndToEnd ==
    [][(/\ pc = "tick"
        /\ pc' = "frame"
        /\ click' = NoInput
        /\ decode_due(_reading, render_frame))
           => (/\ decoded'
               /\ outcome' # NoOutcome
               /\ _reading' = 0
               /\ ~_start_readback'
               /\ ((\A t \in Texels : scene[t] = 5) /\ 5 \in live)
                      => outcome' = Select(5)
               /\ (\A t \in Texels : scene[t] = NoEntity)
                      => outcome' = Deselect)]_vars

\* the orders in which the texels of a buffer can be laid out
TexelOrders == {p \in [Texels -> Texels] : \A a, b \in Texels : p[a] = p[b] => a = b}

\* the colours other than the background that occupy the largest number of
\* texels of _blit_data
TiedColors ==
    {c \in {TexelColor(t) : t \in Texels} \ {Background} :
        \A t \in Texels :
            TexelColor(t) # Background => Count(TexelColor(t)) <= Count(c)}

\* C12: a decode of a buffer in which two or more colours share the largest
\* count picks the tied colour whose key comes first in the ascending order
\* of the std::map: nothing else is selected, that entity is selected when
\* it is alive, and every buffer holding the same texels in other positions
\* decodes to the same outcome.
C12_TieBreak ==
    (decoded /\ Cardinality(TiedColors) >= 2)
        => LET keys == {hash_key(c) : c \in TiedColors}
               w == CHOOSE k \in keys : \A j \in keys : k <= j
           IN  /\ outcome.kind = "select" => outcome.index = w
               /\ w \in live => outcome = Select(w)
               /\ \A p \in TexelOrders :
                     decide(scan([t \in Texels |-> _blit_data[p[t]]], d3d9,
                                 tex_id_dim * tex_id_dim),
                            live, capacity) = outcome

\* entities 5 and 65536 tie at two texels each, 65536 comes first in the
\* buffer and 5 is selected
C12_Witness ==
    /\ decoded
    /\ Count(color_bytes(5)) = 2
    /\ Count(color_bytes(65536)) = 2
    /\ TexelColor(1) = color_bytes(65536)
    /\ outcome = Select(5)

\* a tick without a click while the fence is ahead of the frame counter
\* changes nothing
C13_Waiting ==
    (/\ pc = "tick"
     /\ pc' = "frame"
     /\ click' = NoInput
     /\ _reading # 0
     /\ render_frame < _reading)
        => /\ _reading' = _reading
           /\ ~decoded'
           /\ outcome' = NoOutcome
           /\ UNCHANGED <<gfx_vars, _start_readback, _surface, _blit_data,
                          reads, selection>>

\* a decode runs only in a tick that found a fence recorded by an earlier
\* tick and reached by the frame counter, and it reads the bytes of the
\* latest pick render
C13_DecodeAfterFence ==
    (pc = "tick" /\ pc' = "frame" /\ decoded')
        => /\ _reading # 0
           /\ _reading <= render_frame
           /\ ~accepted(click', selection)
           /\ _blit_data = readback(_surface, d3d9)

\* C13: on a tick without a click where the fence f is recorded and the
\* frame counter is below f nothing happens: the fence stays f, nothing is
\* decoded, no outcome is emitted; a decode only runs on a tick whose frame
\* counter has reached the fence recorded by the read of the same cycle.
C13_FenceWait == [][C13_Waiting /\ C13_DecodeAfterFence]_vars

\* a tick without a click has passed with the fence still ahead
C13_Witness ==
    /\ pc = "frame"
    /\ click = NoInput
    /\ render_frame >= 1
    /\ _reading > render_frame
    /\ reads # <<>>

\* C14: with blit support, the tick of an accepted click renders the
\* identity buffer in one pass and only marks the blit as pending: at the
\* end of the tick _start_readback is set, no fence is recorded and no
\* read has been issued.
C14_BlitNextTick ==
    [][(/\ pc = "tick"
        /\ pc' = "frame"
        /\ blit_support
        /\ accepted(click', selection))
           => (/\ _start_readback'
               /\ _reading' = 0
               /\ reads' = reads
               /\ calls' = calls + 1)]_vars

\* C15: on every tick that finds a recorded fence reached by the frame
\* counter and that carries no click or a rejected click, the decode runs
\* and the fence is cleared in that tick.
C15_DecodeEveryTick ==
    [][(/\ pc = "tick"
        /\ pc' = "frame"
        /\ decode_due(_reading, render_frame)
        /\ ~accepted(click', selection))
           => (decoded' /\ _reading' = 0)]_vars

\* C16: a tick whose click is rejected (the gizmo owns it while an entity
\* is selected, the editor camera or its component is missing, an
\* un-projection fails) leaves _start_readback, the fence, s_index,
\* s_last_index, the configured views, the identity buffer, the reads in
\* flight and the selection unchanged and emits no outcome.
C16_AbortedPick ==
    [][(/\ pc = "tick"
        /\ pc' = "frame"
        /\ click'.pressed
        /\ \/ click'.over /\ selection # NoEntity
           \/ ~click'.camera
           \/ ~click'.near
           \/ ~click'.far)
           => (/\ UNCHANGED <<_start_readback, _reading, _surface, _blit_data>>
               /\ UNCHANGED <<s_index, s_last_index, views, calls>>
               /\ UNCHANGED <<reads, selection>>
               /\ ~decoded'
               /\ outcome' = NoOutcome)]_vars

\* a click whose far-plane un-projection failed was dropped while a fence
\* was recorded and an identity buffer rendered
C16_Witness ==
    /\ pc = "frame"
    /\ click.pressed
    /\ ~click.far
    /\ _reading # 0
    /\ reads # <<>>
    /\ _surface # [t \in Texels |-> Background]

\* C17: render_pass::reset() leaves s_index and s_last_index at 0 and no
\* view slot configured, the slots handed out before a wraparound
\* included, and the next pass constructed gets slot 0.
C17_ResetAll ==
    [][/\ calls' = 0 => (s_index' = 0 /\ s_last_index' = 0 /\ views' = {})
       /\ (calls = 0 /\ calls' = 1) => pass_id' = 0]_vars

\* C18: without blit support the warning of line 123 is in the log at most
\* once, and every accepted click after the one that logged it is a no-op:
\* no view slot is allocated, the identity buffer is not rendered and
\* nothing is logged.
C18_WarnOnce ==
    [][/\ ~blit_support => warnings' <= 1
       /\ (/\ ~blit_support
           /\ warnings >= 1
           /\ pc = "tick"
           /\ pc' = "frame"
           /\ accepted(click', selection))
              => UNCHANGED <<gfx_vars, pick_vars, warnings>>]_vars

\* the tick of an accepted click whose read could not be scheduled (no read
\* is put in flight) ends Idle and emits nothing
C19_FailedRead ==
    (/\ pc = "tick"
     /\ pc' = "frame"
     /\ blit_support
     /\ accepted(click', selection)
     /\ reads' = reads)
        => /\ _reading' = 0
           /\ ~_start_readback'
           /\ ~decoded'
           /\ outcome' = NoOutcome

\* an Idle machine stays Idle and silent on every tick without an accepted
\* click, whatever the frame counter is
C19_StaysIdle ==
    (/\ pc = "tick"
     /\ pc' = "frame"
     /\ _reading = 0
     /\ ~_start_readback
     /\ ~accepted(click', selection))
        => /\ _reading' = 0
           /\ ~_start_readback'
           /\ ~decoded'
           /\ outcome' = NoOutcome
           /\ UNCHANGED <<gfx_vars, _surface, reads, selection>>

\* an accepted click on an Idle machine renders the identity buffer anew
\* and issues the blit and the read in two new passes
C19_FreshCycle ==
    (/\ pc = "tick"
     /\ pc' = "frame"
     /\ blit_support
     /\ _reading = 0
     /\ accepted(click', selection))
        => /\ calls' = calls + 2
           /\ _surface' = render(scene, live)
           /\ _reading' \in {0, render_frame + ReadLatency}
           /\ _reading' # 0 => /\ Len(reads') = Len(reads) + 1
                               /\ reads'[Len(reads')].due = _reading'

\* C19: when the read of an accepted click returns 0, the machine is Idle
\* at the end of that tick (flag clear, fence 0); it then stays Idle without
\* decode or outcome until the next accepted click, which starts a fresh
\* cycle.
C19_UnschedulableRead ==
    [][C19_FailedRead /\ C19_StaysIdle /\ C19_FreshCycle]_vars

\* after a click whose read could not be scheduled, with no read in flight
\* and a frame counter that earlier reads would have been due at
C19_Witness ==
    /\ pc = "frame"
    /\ blit_support
    /\ click = ClickOk
    /\ _reading = 0
    /\ reads = <<>>
    /\ render_frame >= ReadLatency + 1
    /\ _surface # [t \in Texels |-> Background]

\* C20: after the tick of a click that constructed both passes, either the
\* fill slot and the blit slot were both handed out since the last
\* gfx::frame() and the blit slot is the greater, or a gfx::frame() came
\* after the fill slot was handed out and before the blit slot was.
C20_BlitAfterFill ==
    (fill_pass_id # -1 /\ blit_pass_id # -1)
        => \/ /\ fill_pass_id \in frame_slots
              /\ blit_pass_id \in frame_slots
              /\ blit_pass_id > fill_pass_id
           \/ /\ fill_pass_id \notin frame_slots
              /\ blit_pass_id \in frame_slots
              /\ frame_calls >= 1

\* a click at s_index = 254: the fill pass got slot 254, generate_id
\* flushed the frame and the blit pass got slot 0
C20_Witness ==
    /\ pc = "frame"
    /\ fill_pass_id = ViewLimit - 1
    /\ blit_pass_id = 0
    /\ frame_slots = {0}
    /\ frame_calls = 1

====
